---- MODULE Spec2Model ----
(***************************************************************************)
(* Model of tmp_normalize.py: the one-shot patch script for                *)
(* src/ui/FRPlayback.tsx and the helper normalizePlaybackSeries that the   *)
(* script injects.                                                         *)
(*                                                                         *)
(* JavaScript numbers are IEEE-754 binary floating point.  The model keeps *)
(* the structure of that format (a fixed-width significand, a bounded      *)
(* exponent, gradual underflow, round-to-nearest ties-to-even, overflow to *)
(* an infinity, NaN) and shrinks only its two widths.  Every finite number *)
(* is an integer multiple of the smallest subnormal, which is the unit 1   *)
(* here, so the exact result of an addition or subtraction is an integer   *)
(* and only the rounding of that integer has to be modelled.  The sign of  *)
(* zero is not modelled (=== and Number.isFinite do not observe it).       *)
(***************************************************************************)
EXTENDS Integers, Sequences, FiniteSets, TLC

\* Width of the significand, in bits (53 for a JavaScript number).
MantBits == 2
\* Largest exponent step above the subnormal binade (2046 for a JavaScript number).
MaxExp == 2
\* Largest number of series in a batch.
MaxSeries == 2
\* Largest number of samples in one series.
MaxLen == 2
\* Largest number of tokens of the patched file.
MaxTextLen == 4

RECURSIVE Pow2(_)
Pow2(n) == IF n = 0 THEN 1 ELSE 2 * Pow2(n - 1)

Abs(x) == IF x < 0 THEN -x ELSE x

\* Number.MAX_VALUE of the format: the largest significand at the largest exponent.
MaxFloat == (Pow2(MantBits) - 1) * Pow2(MaxExp)

\* The magnitudes the format represents exactly.
FloatMags == {m * Pow2(e) : m \in 0..(Pow2(MantBits) - 1), e \in 0..MaxExp}

Fin(n) == [k |-> "fin", v |-> n]
NaN == [k |-> "nan", v |-> 0]
PosInf == [k |-> "inf", v |-> 1]
NegInf == [k |-> "inf", v |-> -1]

\* Every value a JavaScript number can hold.
Numbers == {Fin(n) : n \in FloatMags} \cup {Fin(-n) : n \in FloatMags} \cup {NaN, PosInf, NegInf}

\* Number.isFinite
IsFinite(x) == x.k = "fin"

\* The binade of a magnitude: the exponent whose spacing applies to it.
RECURSIVE Binade(_, _)
Binade(a, e) == IF e = MaxExp \/ a < Pow2(MantBits + e) THEN e ELSE Binade(a, e + 1)

\* Round-to-nearest, ties-to-even, of the magnitude a to the spacing s.
RoundMag(a, s) ==
    LET q == a \div s
        r == a % s
    IN  IF 2 * r < s THEN q * s
        ELSE IF 2 * r > s THEN (q + 1) * s
        ELSE IF q % 2 = 0 THEN q * s ELSE (q + 1) * s

\* The JavaScript number an exact integer result rounds to.
Round(x) ==
    LET a == Abs(x)
        m == RoundMag(a, Pow2(Binade(a, 0)))
    IN  IF m > MaxFloat THEN (IF x < 0 THEN NegInf ELSE PosInf)
        ELSE Fin(IF x < 0 THEN -m ELSE m)

\* a + b
Add(a, b) ==
    IF a.k = "nan" \/ b.k = "nan" THEN NaN
    ELSE IF a.k = "inf" /\ b.k = "inf" THEN (IF a.v = b.v THEN a ELSE NaN)
    ELSE IF a.k = "inf" THEN a
    ELSE IF b.k = "inf" THEN b
    ELSE Round(a.v + b.v)

\* unary minus
Neg(a) == IF a.k = "nan" THEN NaN ELSE [k |-> a.k, v |-> -a.v]

\* a - b
Sub(a, b) == Add(a, Neg(b))

\* a < b (false when either side is NaN)
Lt(a, b) ==
    IF a.k = "nan" \/ b.k = "nan" THEN FALSE
    ELSE IF a.k = "inf" THEN a.v = -1 /\ b # a
    ELSE IF b.k = "inf" THEN b.v = 1
    ELSE a.v < b.v

\* a > b
Gt(a, b) == Lt(b, a)

\* Math.max(a, b)
MathMax(a, b) ==
    IF a.k = "nan" \/ b.k = "nan" THEN NaN
    ELSE IF Lt(a, b) THEN b ELSE a


(***************************************************************************)
(* normalizePlaybackSeries, the helper of lines 66-110.                    *)
(***************************************************************************)

\* A number[] of at most MaxLen samples, and a number[][] of at most MaxSeries of them.
SeriesSet == UNION {[1..n -> Numbers] : n \in 0..MaxLen}
Batches == UNION {[1..n -> SeriesSet] : n \in 0..MaxSeries}

\* A local that its let has not yet initialised.
Undefined == [k |-> "undef", v |-> 0]

VARIABLES
    input,      \* the samples of the argument at the call, series by series
    heap,       \* the arrays allocated so far; an array's identity is its index
    series,     \* the argument: the identities of its arrays
    pc,         \* the position in normalizePlaybackSeries
    peak,       \* let peak
    min,        \* let min
    centered,   \* const centered: the identities of its arrays
    offset,     \* const offset
    arrays,     \* the arrays property of the returned object
    original,   \* the content of src/ui/FRPlayback.tsx when the script starts
    file,       \* the content of src/ui/FRPlayback.tsx on disk
    text,       \* the script's variable text
    start,      \* the script's variable start
    end,        \* the script's variable end
    ppc         \* the position in the script

normVars == <<input, heap, series, pc, peak, min, centered, offset, arrays>>
patchVars == <<original, file, text, start, end, ppc>>
vars == <<normVars, patchVars>>

\* The samples of the arrays a number[][] refers to.
Deref(refs) == [s \in 1..Len(refs) |-> heap[refs[s]]]

\* The peak loop with the comparison of line 76 turned round.
RECURSIVE PeakLoopLess(_, _, _)
PeakLoopLess(arr, i, p) ==
    IF i > Len(arr) THEN p
    ELSE LET value == arr[i]
         IN  IF ~IsFinite(value) THEN PeakLoopLess(arr, i + 1, p)
             ELSE IF Lt(value, p) THEN PeakLoopLess(arr, i + 1, value)
             ELSE PeakLoopLess(arr, i + 1, p)

\* The inner loop of lines 73-77 from index i on (indices count from 1 here).
RECURSIVE PeakLoop(_, _, _)
PeakLoop(arr, i, p) ==
    IF i > Len(arr) THEN p
    ELSE LET value == arr[i]
         IN  IF ~IsFinite(value) THEN PeakLoop(arr, i + 1, p)
             ELSE IF Gt(value, p) THEN PeakLoop(arr, i + 1, value)
             ELSE PeakLoop(arr, i + 1, p)

\* The outer loop of lines 72-78 from series s on.
RECURSIVE PeakOver(_, _, _)
PeakOver(batch, s, p) ==
    IF s > Len(batch) THEN p
    ELSE PeakOver(batch, s + 1, PeakLoop(batch[s], 1, p))

\* Lines 80-82 left out.
PeakNoFallback(p) == p

\* Lines 80-82.
PeakFallback(p) == IF ~IsFinite(p) THEN Fin(0) ELSE p

\* peak as line 84 finds it.
PeakOf(batch) == PeakFallback(PeakOver(batch, 1, NegInf))

\* Line 89.
NormalizedValue(value, p) == IF IsFinite(value) THEN Sub(value, p) ELSE NaN

\* Lines 91-93 with the comparison turned round.
TrackMinGreater(normalizedValue, m) ==
    IF IsFinite(normalizedValue) /\ Gt(normalizedValue, m) THEN normalizedValue ELSE m

\* Lines 91-93: min after one more normalizedValue.
TrackMin(normalizedValue, m) ==
    IF IsFinite(normalizedValue) /\ Lt(normalizedValue, m) THEN normalizedValue ELSE m

\* The loop of lines 87-94 from index i on: the array normalized and min.
RECURSIVE CenterLoop(_, _, _, _)
CenterLoop(source, p, i, acc) ==
    IF i > Len(source) THEN acc
    ELSE LET normalizedValue == NormalizedValue(source[i], p)
         IN  CenterLoop(source, p, i + 1,
                        [normalized |-> Append(acc.normalized, normalizedValue),
                         min |-> TrackMin(normalizedValue, acc.min)])

\* series.map of lines 85-96 from series s on: the centered arrays and min.
RECURSIVE CenterOver(_, _, _, _)
CenterOver(batch, p, s, acc) ==
    IF s > Len(batch) THEN acc
    ELSE LET one == CenterLoop(batch[s], p, 1, [normalized |-> <<>>, min |-> acc.min])
         IN  CenterOver(batch, p, s + 1,
                        [centered |-> Append(acc.centered, one.normalized), min |-> one.min])

\* Lines 84-96 as a whole.
CenterOf(batch, p) == CenterOver(batch, p, 1, [centered |-> <<>>, min |-> PosInf])

\* Line 98.
OffsetOf(m) == IF IsFinite(m) THEN Neg(m) ELSE Fin(0)

\* Line 105 storing the centered value as it is.
ShiftedValueUnshifted(value, off) == IF IsFinite(value) THEN value ELSE NaN

\* Line 105 with the clamp applied before the offset.
ShiftedValueClampFirst(value, off) ==
    IF IsFinite(value) THEN Add(MathMax(Fin(0), value), off) ELSE NaN

\* Line 105.
ShiftedValue(value, off) == IF IsFinite(value) THEN MathMax(Fin(0), Add(value, off)) ELSE NaN

\* Lines 102-107 for one centered array.
ShiftedOf(source, off) == [i \in 1..Len(source) |-> ShiftedValue(source[i], off)]

\* centered.map returning the series in reverse order.
ShiftAllReversed(cent, off) == [s \in 1..Len(cent) |-> ShiftedOf(cent[Len(cent) + 1 - s], off)]

\* centered.map of lines 101-108.
ShiftAll(cent, off) == [s \in 1..Len(cent) |-> ShiftedOf(cent[s], off)]

\* The samples normalizePlaybackSeries returns for a batch of samples.
normalizePlaybackSeries(batch) ==
    IF Len(batch) = 0 THEN <<>>
    ELSE LET c == CenterOf(batch, PeakOf(batch))
         IN  ShiftAll(c.centered, OffsetOf(c.min))

\* The identities of n arrays allocated after the k there are.
FreshIds(k, n) == [s \in 1..n |-> k + s]

\* The call: any batch of freshly built arrays (line 20-26 builds them with Array.from).
InitNorm ==
    /\ \E n \in 0..MaxSeries : input \in [1..n -> SeriesSet]
    /\ heap = input
    /\ series = FreshIds(0, Len(input))
    /\ pc = "entry"
    /\ peak = Undefined
    /\ min = Undefined
    /\ centered = <<>>
    /\ offset = Undefined
    /\ arrays = <<>>

\* The script has nothing to do with a run of the helper.
PatchIdle ==
    /\ original = <<>>
    /\ file = <<>>
    /\ text = <<>>
    /\ start = -1
    /\ end = -1
    /\ ppc = "idle"

Init == InitNorm /\ PatchIdle

\* Lines 67-69.
ReturnEmpty ==
    /\ pc = "entry"
    /\ Len(series) = 0
    /\ arrays' = <<>>
    /\ pc' = "done"
    /\ UNCHANGED <<input, heap, series, peak, min, centered, offset, patchVars>>

\* Lines 71-82.
ComputePeak ==
    /\ pc = "entry"
    /\ Len(series) # 0
    /\ peak' = PeakOf(Deref(series))
    /\ pc' = "center"
    /\ UNCHANGED <<input, heap, series, min, centered, offset, arrays, patchVars>>

\* Lines 84-96: every callback allocates its array normalized (line 86).
Center ==
    /\ pc = "center"
    /\ LET c == CenterOf(Deref(series), peak)
       IN  /\ heap' = heap \o c.centered
           /\ centered' = FreshIds(Len(heap), Len(series))
           /\ min' = c.min
    /\ pc' = "offset"
    /\ UNCHANGED <<input, series, peak, offset, arrays, patchVars>>

\* Line 98.
ComputeOffset ==
    /\ pc = "offset"
    /\ offset' = OffsetOf(min)
    /\ pc' = "shift"
    /\ UNCHANGED <<input, heap, series, peak, min, centered, arrays, patchVars>>

\* Lines 100-109 writing the shifted samples into the centered arrays.
ShiftInPlace ==
    /\ pc = "shift"
    /\ heap' = [id \in 1..Len(heap) |->
                   IF \E s \in 1..Len(centered) : centered[s] = id
                   THEN ShiftedOf(heap[id], offset) ELSE heap[id]]
    /\ arrays' = centered
    /\ pc' = "done"
    /\ UNCHANGED <<input, series, peak, min, centered, offset, patchVars>>

\* Lines 100-109: every callback allocates its array shifted (line 102).
Shift ==
    /\ pc = "shift"
    /\ heap' = heap \o ShiftAll(Deref(centered), offset)
    /\ arrays' = FreshIds(Len(heap), Len(centered))
    /\ pc' = "done"
    /\ UNCHANGED <<input, series, peak, min, centered, offset, patchVars>>

Next == ReturnEmpty \/ ComputePeak \/ Center \/ ComputeOffset \/ Shift

Spec == Init /\ [][Next]_vars


(***************************************************************************)
(* The patch script, lines 1-63 and 113-116.  The file is a sequence of    *)
(* tokens: the four strings the script searches for and any other text.    *)
(* The strings the script writes are tokens of their own; none of them     *)
(* contains the serializeBuffer closing text, and the script searches for  *)
(* the two traces markers only before it writes any of them.               *)
(***************************************************************************)

\* "const traces = useMemo<PlotDataArray>(() => {" (line 7)
StartMarker == "S"
\* "  }, [spectra]);" (line 10)
EndMarker == "E"
\* "autorangeoptions: { clipmin: -30, clipmax: 30 }," (line 59)
OldClip == "C"
\* "autorangeoptions: { clipmin: 0, clipmax: 60 }," (line 59)
NewClip == "C2"
\* insert_target (line 61)
insert_target == "T"
\* new_block (lines 15-55)
new_block == "N"
\* helper_insert (lines 65-111)
helper_insert == "H"
\* Text that is none of the above.
Other == "X"

\* What src/ui/FRPlayback.tsx may hold before the script runs.
FileTokens == {StartMarker, EndMarker, OldClip, insert_target, Other}
Files == UNION {[1..n -> FileTokens] : n \in 0..MaxTextLen}

\* The messages of the three raise statements (lines 9, 12, 63).
StartNotFound == "ValueError: traces block start not found"
EndNotFound == "ValueError: traces block end not found"
TargetNotFound == "ValueError: serializeBuffer closing not found"
RaiseMessages == {StartNotFound, EndNotFound, TargetNotFound}

\* str.find(tok, from): the first index at or after from (counted from 0), or -1.
RECURSIVE Find(_, _, _)
Find(t, tok, from) ==
    IF from >= Len(t) THEN -1
    ELSE IF t[from + 1] = tok THEN from
    ELSE Find(t, tok, from + 1)

\* tok in t
Contains(t, tok) == \E i \in 1..Len(t) : t[i] = tok

\* str.replace(tok, repl): every occurrence replaced.
RECURSIVE Replace(_, _, _)
Replace(t, tok, repl) ==
    IF Len(t) = 0 THEN <<>>
    ELSE (IF Head(t) = tok THEN repl ELSE <<Head(t)>>) \o Replace(Tail(t), tok, repl)

\* t[:i] and t[i:]
Upto(t, i) == SubSeq(t, 1, i)
From(t, i) == SubSeq(t, i + 1, Len(t))

\* The helper is not running while the script runs.
NormIdle ==
    /\ input = <<>>
    /\ heap = <<>>
    /\ series = <<>>
    /\ pc = "idle"
    /\ peak = Undefined
    /\ min = Undefined
    /\ centered = <<>>
    /\ offset = Undefined
    /\ arrays = <<>>

\* The script starts on any file (line 3).
InitPatch ==
    /\ original \in Files
    /\ file = original
    /\ text = <<>>
    /\ start = -1
    /\ end = -1
    /\ ppc = "read"
    /\ NormIdle

\* Lines 4-5.
ReadFile ==
    /\ ppc = "read"
    /\ text' = file
    /\ ppc' = "findStart"
    /\ UNCHANGED <<original, file, start, end, normVars>>

\* Lines 7-9.
FindStart ==
    /\ ppc = "findStart"
    /\ start' = Find(text, StartMarker, 0)
    /\ ppc' = IF start' = -1 THEN StartNotFound ELSE "findEnd"
    /\ UNCHANGED <<original, file, text, end, normVars>>

\* Lines 10-13.
FindEnd ==
    /\ ppc = "findEnd"
    /\ LET e == Find(text, EndMarker, start)
       IN  IF e = -1
           THEN end' = e /\ ppc' = EndNotFound
           ELSE end' = e + 1 /\ ppc' = "splice"
    /\ UNCHANGED <<original, file, text, start, normVars>>

\* Line 57.
Splice ==
    /\ ppc = "splice"
    /\ text' = Upto(text, start) \o <<new_block>> \o From(text, end)
    /\ ppc' = "clip"
    /\ UNCHANGED <<original, file, start, end, normVars>>

\* Line 59.
ReplaceClip ==
    /\ ppc = "clip"
    /\ text' = Replace(text, OldClip, <<NewClip>>)
    /\ ppc' = "checkTarget"
    /\ UNCHANGED <<original, file, start, end, normVars>>

\* Lines 61-63 left out.
CheckInsertTargetSkipped ==
    /\ ppc = "checkTarget"
    /\ ppc' = "insert"
    /\ UNCHANGED <<original, file, text, start, end, normVars>>

\* Lines 61-63.
CheckInsertTarget ==
    /\ ppc = "checkTarget"
    /\ ppc' = IF ~Contains(text, insert_target) THEN TargetNotFound ELSE "insert"
    /\ UNCHANGED <<original, file, text, start, end, normVars>>

\* Line 113.
InsertHelper ==
    /\ ppc = "insert"
    /\ text' = Replace(text, insert_target, <<insert_target, helper_insert>>)
    /\ ppc' = "write"
    /\ UNCHANGED <<original, file, start, end, normVars>>

\* Lines 115-116.
WriteFile ==
    /\ ppc = "write"
    /\ file' = text
    /\ ppc' = "done"
    /\ UNCHANGED <<original, text, start, end, normVars>>

NextPatch ==
    \/ ReadFile
    \/ FindStart
    \/ FindEnd
    \/ Splice
    \/ ReplaceClip
    \/ CheckInsertTarget
    \/ InsertHelper
    \/ WriteFile

SpecPatch == InitPatch /\ [][NextPatch]_vars

(***************************************************************************)
(* Properties of normalizePlaybackSeries.                                  *)
(***************************************************************************)

\* The positions of a batch, and those that hold a finite sample.
Positions(batch) == {<<s, i>> : s \in 1..MaxSeries, i \in 1..MaxLen} \cap
                    {q \in (1..MaxSeries) \X (1..MaxLen) : q[1] <= Len(batch) /\ q[2] <= Len(batch[q[1]])}
FinitePositions(batch) == {q \in Positions(batch) : IsFinite(batch[q[1]][q[2]])}
FiniteValues(batch) == {batch[q[1]][q[2]].v : q \in FinitePositions(batch)}
HasFinite(batch) == FinitePositions(batch) # {}
SetMin(S) == CHOOSE x \in S : \A y \in S : x <= y
SetMax(S) == CHOOSE x \in S : \A y \in S : x >= y
SameShape(a, b) == Len(a) = Len(b) /\ \A s \in 1..Len(a) : Len(a[s]) = Len(b[s])

\* The samples of the returned arrays, and of the centered arrays.
Output == Deref(arrays)
Centered == Deref(centered)
Returned == pc = "done"

\* C1: once the call has returned, no finite output sample is negative, and when
\* the batch held a finite sample the least finite output sample is exactly 0.
C1_MinIsZero ==
    Returned =>
        /\ \A v \in FiniteValues(Output) : v >= 0
        /\ HasFinite(input) => (HasFinite(Output) /\ SetMin(FiniteValues(Output)) = 0)

\* C1 happens: two series with a negative sample and a non-finite one have been normalized.
C1_Witness ==
    /\ Returned
    /\ Len(input) = 2
    /\ \E v \in FiniteValues(input) : v < 0
    /\ FinitePositions(input) # Positions(input)
    /\ Cardinality(FiniteValues(Output)) > 1

\* C2: once the call has returned, an output sample is non-finite exactly where
\* the input sample at the same position is non-finite.
C2_FinitenessPreserved ==
    Returned =>
        /\ SameShape(Output, input)
        /\ \A q \in Positions(input) :
               IsFinite(Output[q[1]][q[2]]) <=> IsFinite(input[q[1]][q[2]])

\* C3: once the call has returned, every finite input sample v has become
\* v minus the least finite input sample, so that the difference of any two
\* finite samples is the same in the output as in the input.
C3_ShiftByGlobalMin ==
    Returned =>
        /\ SameShape(Output, input)
        /\ \A q \in FinitePositions(input) :
               Output[q[1]][q[2]] = Fin(input[q[1]][q[2]].v - SetMin(FiniteValues(input)))
        /\ \A q, r \in FinitePositions(input) :
               /\ IsFinite(Output[q[1]][q[2]])
               /\ IsFinite(Output[r[1]][r[2]])
               /\ Output[q[1]][q[2]].v - Output[r[1]][r[2]].v
                      = input[q[1]][q[2]].v - input[r[1]][r[2]].v

\* C4 as stated: the greatest finite output sample is the greatest finite input
\* sample minus the least finite centered sample, and that is at least 0.
C4_MaxIsPeakMinusMin ==
    (Returned /\ HasFinite(input)) =>
        /\ HasFinite(Output)
        /\ SetMax(FiniteValues(Output))
               = SetMax(FiniteValues(input)) - SetMin(FiniteValues(Centered))
        /\ SetMax(FiniteValues(Output)) >= 0

\* C4 as amended: the greatest finite output sample is the negation of the least
\* finite centered sample (the centered peak, 0, minus that minimum), which is
\* the offset of line 98, and it is at least 0.
C4_MaxIsMinusMin ==
    (Returned /\ HasFinite(input)) =>
        /\ HasFinite(Output)
        /\ SetMax(FiniteValues(Output)) = 0 - SetMin(FiniteValues(Centered))
        /\ offset = Fin(SetMax(FiniteValues(Output)))
        /\ SetMax(FiniteValues(Output)) >= 0

\* C4 happens: a batch whose peak is not 0 and whose samples differ has been normalized.
C4_Witness ==
    /\ Returned
    /\ HasFinite(input)
    /\ SetMax(FiniteValues(input)) > 0
    /\ SetMin(FiniteValues(Centered)) < 0
    /\ SetMax(FiniteValues(Output)) > 0

\* C5 as stated: among the batches the normalizer can be called on, some batch is
\* changed by a second pass of the normalizer.
C5_NotIdempotent ==
    Returned =>
        \E b \in Batches :
            normalizePlaybackSeries(normalizePlaybackSeries(b)) # normalizePlaybackSeries(b)

\* C5 as amended: a second pass over the returned batch returns the same batch.
C5_Idempotent ==
    Returned => normalizePlaybackSeries(Output) = Output

\* C5 happens: a batch that the first pass changed, with rounding in the
\* centering, has been normalized.
C5_Witness ==
    /\ Returned
    /\ Output # input
    /\ HasFinite(input)
    /\ \E q \in FinitePositions(input) :
           /\ IsFinite(Centered[q[1]][q[2]])
           /\ Centered[q[1]][q[2]].v # input[q[1]][q[2]].v - peak.v

\* C6: once the call has returned, the output has as many series as the input
\* and each output series is as long as the input series at the same place.
C6_SameShape ==
    Returned => SameShape(Output, input)

\* C6 happens: two series of unequal lengths, one of them empty, have been normalized.
C6_Witness ==
    /\ Returned
    /\ Len(input) = 2
    /\ Len(input[1]) = 0
    /\ Len(input[2]) = MaxLen
    /\ Len(Output[2]) = MaxLen

\* C7: the call returns a batch of numbers whatever the batch; an empty batch
\* returns an empty batch; a batch without a finite sample is centered with
\* peak 0, shifted with offset 0, and returns NaN at every position of the
\* same shape.
C7_Degenerate ==
    /\ Returned => \A q \in Positions(Output) : Output[q[1]][q[2]] \in Numbers
    /\ (Returned /\ Len(input) = 0) => arrays = <<>>
    /\ (Len(input) > 0 /\ ~HasFinite(input)) =>
           /\ pc \in {"center", "offset", "shift", "done"} => peak = Fin(0)
           /\ pc \in {"shift", "done"} => offset = Fin(0)
           /\ Returned =>
                  /\ SameShape(Output, input)
                  /\ \A q \in Positions(input) : Output[q[1]][q[2]] = NaN

\* C7 happens: a batch that holds an infinity and no finite sample has been normalized.
C7_Witness ==
    /\ Returned
    /\ ~HasFinite(input)
    /\ \E q \in Positions(input) : input[q[1]][q[2]] = PosInf
    /\ \E q \in Positions(input) : input[q[1]][q[2]] = NegInf

\* C8: at every point of the call the argument's arrays hold the samples they
\* held at the call, and the returned arrays are arrays of their own: none is
\* an argument array or a centered array, and no two are the same array.
C8_InputUntouched ==
    /\ Deref(series) = input
    /\ Returned =>
           /\ \A s, t \in 1..Len(arrays) :
                  /\ arrays[s] # series[t]
                  /\ Len(centered) >= t => arrays[s] # centered[t]
                  /\ s # t => arrays[s] # arrays[t]

\* C8 happens: a batch whose samples the normalizer changes has been normalized.
C8_Witness ==
    /\ Returned
    /\ Len(series) = MaxSeries
    /\ HasFinite(input)
    /\ \A s \in 1..Len(series) : Output[s] # input[s]

\* C9: from the end of the centering pass on, when the batch holds a finite
\* sample, the greatest finite centered sample is exactly 0 and the least
\* finite centered sample is the value of min.
C9_CenteredExtremes ==
    (pc \in {"offset", "shift", "done"} /\ HasFinite(input)) =>
        /\ HasFinite(Centered)
        /\ SetMax(FiniteValues(Centered)) = 0
        /\ min = Fin(SetMin(FiniteValues(Centered)))

\* C9 happens: the centering pass has just ended on a batch whose peak is not 0
\* and one of whose centered samples overflowed.
C9_Witness ==
    /\ pc = "offset"
    /\ HasFinite(input)
    /\ peak # Fin(0)
    /\ min # Fin(0)
    /\ \E q \in FinitePositions(input) : ~IsFinite(Centered[q[1]][q[2]])


(***************************************************************************)
(* Properties of the patch script.                                         *)
(***************************************************************************)

\* One of the three anchors is missing from a text: the start marker, the end
\* marker at or after the first start marker, or the serializeBuffer closing text.
AnchorMissing(t) ==
    \/ Find(t, StartMarker, 0) = -1
    \/ Find(t, EndMarker, Find(t, StartMarker, 0)) = -1
    \/ ~Contains(t, insert_target)

\* C10: when an anchor is missing from the file, the script is before its write
\* step or has raised, and the file is as it was; the file differs from what it
\* was only after the write step, which is reached only with the three anchors
\* found.
C10_RaiseBeforeWrite ==
    /\ AnchorMissing(original) =>
           /\ file = original
           /\ ppc \in {"read", "findStart", "findEnd", "splice", "clip", "checkTarget"}
                          \cup RaiseMessages
    /\ ppc \in {"write", "done"} =>
           /\ start # -1
           /\ end # -1
           /\ Contains(text, insert_target)
    /\ file # original => ppc = "done"

\* C10 happens: the traces block has been replaced in memory and the script has
\* raised on the missing serializeBuffer closing text.
C10_Witness ==
    /\ ppc = TargetNotFound
    /\ ~Contains(original, insert_target)
    /\ Contains(text, new_block)
    /\ text # original

====
